---- MODULE Spec2Model ----
(***************************************************************************)
(* Model of the OAuth2 credential lifecycle (auth/oauth_manager.py) and of *)
(* the tool dispatch (server.py) of claude-gsuite-admin-mcp.               *)
(*                                                                         *)
(* The credential files .oauth2.<user>.json are the shared store; every    *)
(* OAuthManager instance has a cache of its own (_cached_credentials).     *)
(* Each handler is one action: it runs from its first line to its return.  *)
(* The token endpoint, the disk and the Admin API are the environment;     *)
(* their outcomes are inputs the actions draw with \E.                     *)
(***************************************************************************)
EXTENDS Integers, FiniteSets, Sequences, TLC

\* ---------------------------------------------------------------- bounds
MaxTime == 1          \* the clock runs 0..MaxTime
MaxTokens == 2        \* access tokens the token endpoint issues in a run

Users == {"u1", "u2"}
\* The long-lived OAuthManager instance, the one a handler owns
\* (AdminToolHandler.__init__), and Fresh: an OAuthManager() built for one
\* operation and dropped after it (setup_oauth2, ListGroupsHandler.run_tool,
\* the module-level convenience functions).
Managers == {"m1"}
Fresh == "fresh"
OpManagers == Managers \cup {Fresh}

VARIABLES
    file,       \* file[u]: content of .oauth2.<u>.json
    cache,      \* cache[m][u]: OAuthManager._cached_credentials of manager m
    now,        \* the clock (_UTCNOW)
    issued,     \* access tokens issued so far by the token endpoint
    codesUsed,  \* authorization codes consumed so far by the token endpoint
    codeUser,   \* history: the user the code consumed last was exchanged for
    revoked,    \* history: revoked[m] = users for which revoke_credentials on m
                \* returned True and no code exchange has succeeded since
    calls,      \* calls[c]: the get_stored_credentials call of caller c in
                \* flight (used by the interleaved specification only)
    lastOp,     \* history: the last OAuthManager operation and its outcome
    lastCall,   \* history: the last call_tool and its response
    registry,   \* tool_handlers: the registered handlers, in dict order
    lastTool    \* history: the last operation on the registry or on a handler

vars == <<file, cache, now, issued, codesUsed, codeUser, revoked, calls, lastOp, lastCall,
          registry, lastTool>>

\* ------------------------------------------------------------ credentials
\* One slot of the cache or of the store.  kind: "none" (no entry / no file /
\* Python None), "corrupt" (a file json.load cannot parse: empty or partial),
\* "cred" (an OAuth2Credentials).  refresh = FALSE is an empty refresh_token.
NoCred == [kind |-> "none", access |-> 0, refresh |-> FALSE, expiry |-> 0]
CorruptRec == [kind |-> "corrupt", access |-> 0, refresh |-> FALSE, expiry |-> 0]
Cred(a, r, e) == [kind |-> "cred", access |-> a, refresh |-> r, expiry |-> e]

EmptyCache == [u \in Users |-> NoCred]
EmptyCaches == [m \in Managers |-> EmptyCache]

\* OAuth2Credentials.access_token_expired: now >= token_expiry.
access_token_expired(c) == now >= c.expiry

\* Outcomes of the environment.
NetOutcomes == {"ok", "fail"}          \* a network call: answered, or error/timeout
WriteOutcomes == {"ok", "open_fails", "write_fails", "crash"}
\* "open_fails": open(path, 'w') raises, the file is untouched;
\* "write_fails": open truncated the file, then write raises;
\* "crash": the process dies after open truncated the file.

\* credentials.refresh(http): the token endpoint answers with a new access token
\* only for a non-empty refresh_token, and when the network call goes through.
\* n: the access tokens the endpoint has issued when the call is made.
RefreshOk(c, net, n) == net = "ok" /\ c.refresh /\ n < MaxTokens
\* The new token lives one tick of the clock.
Refreshed(c, n) == Cred(n + 1, c.refresh, now + 1)

\* ------------------------------------------------------ save_credentials
\* The result of save_credentials(u, c) on cache cm and file content f.
save_credentials(cm, f, u, c, w) ==
    [cache |-> IF w = "ok" THEN [cm EXCEPT ![u] = c] ELSE cm,
     file  |-> CASE w = "ok" -> c
                 [] w = "open_fails" -> f
                 [] OTHER -> CorruptRec]

\* ------------------------------------------------- get_stored_credentials
GetOut(res, cm, f, att, ok, crashed) ==
    [result |-> res, cache |-> cm, file |-> f, attempts |-> att,
     refreshed |-> ok, crashed |-> crashed]

\* A manager that keeps the stale credential and tries the refresh again.
refresh_failed_stale(cm, f, u) == GetOut(f, [cm EXCEPT ![u] = f], f, 2, FALSE, FALSE)

\* lines 139-141: the refresh raised; nothing is cached, None is returned.
refresh_failed(cm, f, u) == GetOut(NoCred, cm, f, 1, FALSE, FALSE)

\* lines 136-138, 143-144: the refresh went through; save, cache, return.
refresh_succeeded(cm, f, u, w, n) ==
    LET c == Refreshed(f, n)
        sv == save_credentials(cm, f, u, c, w)
    IN  IF w = "crash"
        THEN GetOut(NoCred, cm, sv.file, 1, TRUE, TRUE)
        ELSE GetOut(c, [sv.cache EXCEPT ![u] = c], sv.file, 1, TRUE, FALSE)

\* A manager that drops an expired cache entry and goes to the store.
get_stored_credentials_checked(cm, f, u, net, w, n) ==
    IF cm[u].kind = "cred" /\ ~access_token_expired(cm[u])
    THEN GetOut(cm[u], cm, f, 0, FALSE, FALSE)
    ELSE IF f.kind # "cred" THEN GetOut(NoCred, [cm EXCEPT ![u] = NoCred], f, 0, FALSE, FALSE)
    ELSE IF access_token_expired(f)
         THEN IF RefreshOk(f, net, n)
              THEN refresh_succeeded(cm, f, u, w, n)
              ELSE refresh_failed([cm EXCEPT ![u] = NoCred], f, u)
    ELSE GetOut(f, [cm EXCEPT ![u] = f], f, 0, FALSE, FALSE)

get_stored_credentials(cm, f, u, net, w, n) ==
    IF cm[u].kind = "cred" THEN GetOut(cm[u], cm, f, 0, FALSE, FALSE)
    ELSE IF f.kind = "none" THEN GetOut(NoCred, cm, f, 0, FALSE, FALSE)
    ELSE IF f.kind = "corrupt" THEN GetOut(NoCred, cm, f, 0, FALSE, FALSE)
    ELSE IF access_token_expired(f)
         THEN IF RefreshOk(f, net, n)
              THEN refresh_succeeded(cm, f, u, w, n)
              ELSE refresh_failed(cm, f, u)
    ELSE GetOut(f, [cm EXCEPT ![u] = f], f, 0, FALSE, FALSE)

\* --------------------------------------------------------- get_credentials
\* Authorization codes are numbered in the order the provider hands them out;
\* code 0 stands for "no authorization_code argument".  The endpoint accepts a
\* code once: code k has been consumed iff k <= codesUsed, code codesUsed + 1
\* is the one the provider handed out last, and a larger one was never issued.
ExchangeOutcomes == {"ok", "flow_error", "other_error"}
\* "flow_error": step2_exchange raises FlowExchangeError; "other_error":
\* get_oauth_flow or the transport raises something else (FileNotFoundError, ...).

\* A token endpoint that accepts a code it has already consumed.
ExchangeOk_reuse(code, ex, n) ==
    ex = "ok" /\ code >= 1 /\ code <= codesUsed + 1 /\ n < MaxTokens

\* flow.step2_exchange(code) returns tokens.
ExchangeOk(code, ex, n) ==
    ex = "ok" /\ code = codesUsed + 1 /\ n < MaxTokens

CredOut(res, cm, f, g, exch, tries, raised, crashed) ==
    [result |-> res, cache |-> cm, file |-> f, attempts |-> g.attempts,
     refreshed |-> g.refreshed, exchanged |-> exch, exchangeAttempts |-> tries,
     raised |-> raised, crashed |-> crashed]

\* A manager that tries a failed exchange a second time.
exchange_code_retry(g, u, code, w, ex, rt, n) ==
    IF ExchangeOk(code, ex, n)
    THEN LET c == Cred(n + 1, rt, now + 1)
             sv == save_credentials(g.cache, g.file, u, c, w)
         IN  IF w = "crash"
             THEN CredOut(NoCred, g.cache, sv.file, g, TRUE, 1, FALSE, TRUE)
             ELSE CredOut(c, sv.cache, sv.file, g, TRUE, 1, FALSE, FALSE)
    ELSE CredOut(NoCred, g.cache, g.file, g, FALSE, 2, ex = "other_error", FALSE)

\* lines 173-181: the exchange, then save_credentials and return.
\* rt: the endpoint's answer carries a refresh_token.
exchange_code(g, u, code, w, ex, rt, n) ==
    IF ExchangeOk(code, ex, n)
    THEN LET c == Cred(n + 1, rt, now + 1)
             sv == save_credentials(g.cache, g.file, u, c, w)
         IN  IF w = "crash"
             THEN CredOut(NoCred, g.cache, sv.file, g, TRUE, 1, FALSE, TRUE)
             ELSE CredOut(c, sv.cache, sv.file, g, TRUE, 1, FALSE, FALSE)
    ELSE IF ex = "other_error"
         THEN CredOut(NoCred, g.cache, g.file, g, FALSE, 1, TRUE, FALSE)
         ELSE CredOut(NoCred, g.cache, g.file, g, FALSE, 1, FALSE, FALSE)

\* A manager that exchanges every code it is given.
get_credentials_always_exchange(cm, f, u, code, net, w, ex, rt, n) ==
    LET g == get_stored_credentials(cm, f, u, net, w, n)
    IN  IF g.crashed THEN CredOut(NoCred, g.cache, g.file, g, FALSE, 0, FALSE, TRUE)
        ELSE IF code = 0
             THEN CredOut(g.result, g.cache, g.file, g, FALSE, 0, FALSE, FALSE)
        ELSE exchange_code(g, u, code, w, ex, rt, n)

get_credentials(cm, f, u, code, net, w, ex, rt, n) ==
    LET g == get_stored_credentials(cm, f, u, net, w, n)
    IN  IF g.crashed THEN CredOut(NoCred, g.cache, g.file, g, FALSE, 0, FALSE, TRUE)
        ELSE IF g.result.kind = "cred"
             THEN CredOut(g.result, g.cache, g.file, g, FALSE, 0, FALSE, FALSE)
        ELSE IF code = 0
             THEN CredOut(NoCred, g.cache, g.file, g, FALSE, 0, FALSE, FALSE)
        ELSE exchange_code(g, u, code, w, ex, rt, n)

\* ------------------------------------------------------ revoke_credentials
RevOut(ret, cm, f, g, existed, remote) ==
    [ret |-> ret, cache |-> cm, file |-> f, attempts |-> g.attempts,
     refreshed |-> g.refreshed, existed |-> existed, remote |-> remote,
     crashed |-> g.crashed, result |-> g.result]

\* A revocation that empties the manager's whole cache.
revoke_local_clear_all(g, u, rv, rm) ==
    IF rv # "ok" THEN RevOut(FALSE, g.cache, g.file, g, TRUE, rv)
    ELSE IF g.file.kind = "none" THEN RevOut(TRUE, EmptyCache, g.file, g, TRUE, rv)
    ELSE IF rm THEN RevOut(TRUE, EmptyCache, NoCred, g, TRUE, rv)
    ELSE RevOut(FALSE, EmptyCache, g.file, g, TRUE, rv)

\* A revocation that forgets the cache entry and leaves the file in place.
revoke_local_keep(g, u, rv, rm) ==
    IF rv # "ok" THEN RevOut(FALSE, g.cache, g.file, g, TRUE, rv)
    ELSE RevOut(TRUE, [g.cache EXCEPT ![u] = NoCred], g.file, g, TRUE, rv)

\* lines 198-213: the remote revocation, then the local removal.
\* rv: outcome of credentials.revoke(http); rm: os.remove succeeds.
revoke_local(g, u, rv, rm) ==
    IF rv # "ok" THEN RevOut(FALSE, g.cache, g.file, g, TRUE, rv)
    ELSE LET cm2 == [g.cache EXCEPT ![u] = NoCred]
         IN  IF g.file.kind = "none" THEN RevOut(TRUE, cm2, g.file, g, TRUE, rv)
             ELSE IF rm THEN RevOut(TRUE, cm2, NoCred, g, TRUE, rv)
             ELSE RevOut(FALSE, cm2, g.file, g, TRUE, rv)

revoke_credentials(cm, f, u, net, w, rv, rm, n) ==
    LET g == get_stored_credentials(cm, f, u, net, w, n)
    IN  IF g.crashed \/ g.result.kind # "cred"
        THEN RevOut(FALSE, g.cache, g.file, g, FALSE, "-")
        ELSE revoke_local(g, u, rv, rm)

\* ----------------------------------------------------- inputs that matter
\* The cache an operation of manager m starts from.
CacheOf(m) == IF m = Fresh THEN EmptyCache ELSE cache[m]

\* get_stored_credentials reaches credentials.refresh (line 136).
WillRefresh(cm, f, u) ==
    cm[u].kind # "cred" /\ f.kind = "cred" /\ access_token_expired(f)

\* An input the code does not read on the path taken is pinned to one value.
NetsFor(cm, f, u, n) ==
    IF WillRefresh(cm, f, u) /\ f.refresh /\ n < MaxTokens
    THEN NetOutcomes ELSE {"fail"}
WritesFor(cm, f, u, net, n) ==
    IF WillRefresh(cm, f, u) /\ RefreshOk(f, net, n) THEN WriteOutcomes ELSE {"ok"}

\* What the store holds for u when an operation starts.
StoredState(f) ==
    IF f.kind # "cred" THEN f.kind
    ELSE IF access_token_expired(f) THEN "expired" ELSE "valid"

\* ------------------------------------------------------------- histories
\* The record of the operation that has just ended, kept until its caller has
\* taken the result (Return).  hit: the manager's cache held an entry for u;
\* stored: what the store held; src: the credential the operation started from
\* (the cached one on a hit, else the stored one); result: the credential
\* returned (NoCred for None); cached: the entry for u in the manager's cache
\* when the operation ended; ret: how it ended.
NoOp == [op |-> "idle", m |-> "-", u |-> "-", hit |-> FALSE, stored |-> "-",
         src |-> NoCred, result |-> NoCred, cached |-> NoCred, ret |-> "-",
         attempts |-> 0, refreshed |-> FALSE, write |-> "-", remote |-> "-",
         exchanged |-> FALSE, exchangeAttempts |-> 0, code |-> "-"]

\* The history of an operation of manager m on user u that called
\* get_stored_credentials with outcome g and ended with r.
OpRecord(op, m, u, g, r, ret, w) ==
    [NoOp EXCEPT !.op = op, !.m = m, !.u = u,
                 !.hit = (CacheOf(m)[u].kind = "cred"),
                 !.stored = StoredState(file[u]),
                 !.src = IF CacheOf(m)[u].kind = "cred" THEN CacheOf(m)[u] ELSE file[u],
                 !.result = IF ret = "cred" THEN r.result ELSE NoCred,
                 !.cached = IF r.crashed THEN NoCred ELSE r.cache[u],
                 !.ret = ret,
                 !.attempts = g.attempts, !.refreshed = g.refreshed,
                 !.write = IF g.refreshed THEN w ELSE "-"]

\* =================================================================== server
\* The registry after _initialize_handlers, in registration order.  Three
\* handlers stand for the registered ones: ListUsersHandler (authenticates
\* through the manager it owns and passes every exception to
\* handle_google_api_error), ListGroupsHandler (builds an OAuthManager per call
\* and wraps every exception in AdminMCPError), and a handler that is only
\* known to implement AdminToolHandler.run_tool, whose outcome is unconstrained.
tool_handlers == <<"list_users", "list_groups", "custom_tool">>
Registered == {tool_handlers[i] : i \in 1..Len(tool_handlers)}
ToolNames == Registered \cup {"no_such_tool"}

\* get_tool_handler(name) finds a handler.
get_tool_handler(name) == name \in Registered

\* A handler object: the name it registers under, which object it is, and
\* whether its get_tool_description returns a Tool (the abstract method of a
\* subclass may raise).
Handler(name, id) ==
    [name |-> name, id |-> id, describes |-> ~(name = "custom_tool" /\ id = "h2")]
HandlerIds == {"h1", "h2"}
HandlerPool == {Handler(name, id) : name \in Registered, id \in HandlerIds}

\* tool_handlers once _initialize_handlers has run.
InitialRegistry == [i \in 1..Len(tool_handlers) |-> Handler(tool_handlers[i], "h1")]

\* The keys of the dict reg, in its order.
Keys(reg) == [i \in 1..Len(reg) |-> reg[i].name]
KeySet(reg) == {reg[i].name : i \in 1..Len(reg)}
IndexOf(reg, name) == CHOOSE i \in 1..Len(reg) : reg[i].name = name

\* add_tool_handler(handler): tool_handlers[handler.name] = handler.  A dict
\* keeps a key at the place of its first insertion and replaces its value.
add_tool_handler(reg, h) ==
    IF h.name \in KeySet(reg)
    THEN [registry |-> [reg EXCEPT ![IndexOf(reg, h.name)] = h], raised |-> "-"]
    ELSE [registry |-> Append(reg, h), raised |-> "-"]

\* The Tool a handler describes itself with.
Tool(h) == [name |-> h.name, handler |-> h.id]

\* A list_tools that lists the last registered first.
RECURSIVE list_tools_reversed(_)
list_tools_reversed(reg) ==
    IF reg = <<>> THEN <<>>
    ELSE IF Head(reg).describes
         THEN Append(list_tools_reversed(Tail(reg)), Tool(Head(reg)))
         ELSE list_tools_reversed(Tail(reg))

\* list_tools(): the descriptions of tool_handlers.values(), in order; a
\* handler whose get_tool_description raises is logged and left out.
RECURSIVE list_tools(_)
list_tools(reg) ==
    IF reg = <<>> THEN <<>>
    ELSE IF Head(reg).describes
         THEN <<Tool(Head(reg))>> \o list_tools(Tail(reg))
         ELSE list_tools(Tail(reg))

\* The arguments of a call.  dict: arguments is a dictionary; has_uid: it has
\* the key USER_ID_ARG; uid: the value under it; has_domain: it has "domain".
\* "#5" stands for a value that is not a string.
NonString == "#5"
UidValues == Users \cup {"", NonString}
Args(d, h, v, dom) == [dict |-> d, has_uid |-> h, uid |-> v, has_domain |-> dom]
ArgShapes ==
    {Args(FALSE, FALSE, "", FALSE), Args(TRUE, FALSE, "", FALSE), Args(TRUE, FALSE, "", TRUE)}
    \cup {Args(TRUE, TRUE, v, dom) : v \in UidValues, dom \in BOOLEAN}

\* A Google API failure as handle_google_api_error reads it: the patterns its
\* text contains and the status of error.resp (0: no resp attribute).
ApiError(marks, status) == [ok |-> FALSE, marks |-> marks, status |-> status]
ApiOk == [ok |-> TRUE, marks |-> {}, status |-> 200]
ApiErrors ==
    {ApiError({"403"}, 403), ApiError({"404"}, 404), ApiError({"invalid"}, 400),
     ApiError({"quota"}, 429), ApiError({"503"}, 503), ApiError({}, 409),
     ApiError({}, 0), ApiError({"404", "403"}, 404)}
ApiOutcomes == {ApiOk} \cup ApiErrors

\* GoogleAPIError.__init__: the error code of a status (0: None).
GoogleAPIErrorCode(status) ==
    CASE status = 0 -> "GOOGLE_API_ERROR"
      [] status = 400 -> "GOOGLE_API_400"
      [] status = 403 -> "GOOGLE_API_403"
      [] status = 404 -> "GOOGLE_API_404"
      [] status = 409 -> "GOOGLE_API_409"
      [] status = 429 -> "GOOGLE_API_429"
      [] status = 500 -> "GOOGLE_API_500"
      [] status = 503 -> "GOOGLE_API_503"
      [] OTHER -> "GOOGLE_API_OTHER"

\* raise GoogleAPIError(message, status_code, api_error=error_str)
GoogleAPIError(status, e) ==
    [raises |-> "GoogleAPIError", error_code |-> GoogleAPIErrorCode(status),
     status_code |-> status, api_error |-> e.marks]

\* A classification that looks for "not found" before "permission denied".
handle_google_api_error_404_first(e) ==
    IF e.marks \cap {"404", "notFound"} # {} THEN GoogleAPIError(404, e)
    ELSE IF e.marks \cap {"403", "Insufficient Permission"} # {} THEN GoogleAPIError(403, e)
    ELSE IF e.marks \cap {"400", "invalid"} # {} THEN GoogleAPIError(400, e)
    ELSE IF e.marks \cap {"429", "quota"} # {} THEN GoogleAPIError(429, e)
    ELSE IF e.marks \cap {"500", "502", "503"} # {} THEN GoogleAPIError(500, e)
    ELSE GoogleAPIError(e.status, e)

\* handle_google_api_error(error): the GoogleAPIError it raises.  "invalid"
\* and "quota" are looked for in the lower-cased text.
handle_google_api_error(e) ==
    IF e.marks \cap {"403", "Insufficient Permission"} # {} THEN GoogleAPIError(403, e)
    ELSE IF e.marks \cap {"404", "notFound"} # {} THEN GoogleAPIError(404, e)
    ELSE IF e.marks \cap {"400", "invalid"} # {} THEN GoogleAPIError(400, e)
    ELSE IF e.marks \cap {"429", "quota"} # {} THEN GoogleAPIError(429, e)
    ELSE IF e.marks \cap {"500", "502", "503"} # {} THEN GoogleAPIError(500, e)
    ELSE GoogleAPIError(e.status, e)

\* What run_tool did.  kind: "return", "AdminMCPError" (error_code: the code,
\* "None" for an AdminMCPError built without one), "Exception" (any other
\* exception), "crash".  cm, f: the owned manager's cache and the user's file
\* afterwards; k: token refreshes made.
RunOut(kind, code, cm, f, k) ==
    [kind |-> kind, error_code |-> code, cache |-> cm, file |-> f, refreshes |-> k]

\* get_stored_credentials for an identity that may be no user at all: no file
\* .oauth2.<uid>.json exists then.
lookup(cm, f, uid, net, w, n) ==
    IF uid \in Users THEN get_stored_credentials(cm, f, uid, net, w, n)
    ELSE GetOut(NoCred, cm, f, 0, FALSE, FALSE)

\* The text of an exception raised inside the users handler before the API
\* call: it holds none of the patterns and the exception has no resp.
PlainError == ApiError({}, 0)

\* ListUsersHandler.run_tool
ListUsers_run_tool(args, cm, f, net, w, api, n) ==
    IF args.uid = NonString \/ args.uid = ""
    THEN RunOut("AdminMCPError", handle_google_api_error(PlainError).error_code, cm, f, 0)
    ELSE LET g == lookup(cm, f, args.uid, net, w, n)
             k == IF g.refreshed THEN 1 ELSE 0
         IN  IF g.crashed THEN RunOut("crash", "-", g.cache, g.file, k)
             ELSE IF g.result.kind # "cred"
             THEN RunOut("AdminMCPError", handle_google_api_error(PlainError).error_code,
                         g.cache, g.file, k)
             ELSE IF api.ok THEN RunOut("return", "-", g.cache, g.file, k)
             ELSE RunOut("AdminMCPError", handle_google_api_error(api).error_code,
                         g.cache, g.file, k)

\* ListGroupsHandler.run_tool
ListGroups_run_tool(args, cm, f, net, w, api, n) ==
    IF ~args.has_domain THEN RunOut("AdminMCPError", "None", cm, f, 0)
    ELSE LET g == lookup(EmptyCache, f, args.uid, net, w, n)
             k == IF g.refreshed THEN 1 ELSE 0
         IN  IF g.crashed THEN RunOut("crash", "-", cm, g.file, k)
             ELSE IF g.result.kind # "cred" \/ ~api.ok
             THEN RunOut("AdminMCPError", "None", cm, g.file, k)
             ELSE RunOut("return", "-", cm, g.file, k)

\* AdminToolHandler.run_tool of an unknown subclass: it may return, raise an
\* AdminMCPError or raise anything else.
CustomOutcomes ==
    {[kind |-> "return", error_code |-> "-"],
     [kind |-> "AdminMCPError", error_code |-> "VALIDATION_ERROR"],
     [kind |-> "AdminMCPError", error_code |-> "None"],
     [kind |-> "Exception", error_code |-> "-"]}
Custom_run_tool(cm, f, custom) == RunOut(custom.kind, custom.error_code, cm, f, 0)

\* handler.run_tool(arguments) of the handler registered under name.
\* env: the outcomes of the environment during the call.
run_tool(name, args, cm, f, env, n) ==
    CASE name = "list_users" ->
            ListUsers_run_tool(args, cm, f, env.net2, env.w2, env.api, n)
      [] name = "list_groups" ->
            ListGroups_run_tool(args, cm, f, env.net2, env.w2, env.api, n)
      [] OTHER -> Custom_run_tool(cm, f, env.custom)

\* A setup_oauth2 that only logs a missing credential.
setup_oauth2_silent(f, uid, net, w, n) ==
    LET g == lookup(EmptyCache, f, uid, net, w, n)
    IN  [raises |-> FALSE, file |-> g.file,
         refreshes |-> IF g.refreshed THEN 1 ELSE 0, crashed |-> g.crashed]

\* setup_oauth2(user_id): raises AuthenticationError unless a fresh
\* OAuthManager finds credentials.
setup_oauth2(f, uid, net, w, n) ==
    LET g == lookup(EmptyCache, f, uid, net, w, n)
    IN  [raises |-> ~g.crashed /\ g.result.kind # "cred", file |-> g.file,
         refreshes |-> IF g.refreshed THEN 1 ELSE 0, crashed |-> g.crashed]

\* The response call_tool returns.  kind "result": the handler's result;
\* "error": the text of an AdminMCPError, with its error_code; "unexpected":
\* the text of any other exception, which names no error code; trace: the text
\* holds traceback.format_exc(); listed: the tool names the text lists.
Response(kind, code, trace) ==
    [kind |-> kind, error_code |-> code, trace |-> trace, listed |-> <<>>]

\* How the body of call_tool ends.  propagated: an exception leaves call_tool.
Ending(resp, propagated) == [response |-> resp, propagated |-> propagated]
returned == Ending(Response("result", "-", FALSE), FALSE)
died == Ending(Response("none", "-", FALSE), FALSE)

\* A call_tool with the except AdminMCPError clause alone.
respond_uncaught(raised, code, debug) ==
    IF raised = "AdminMCPError" THEN Ending(Response("error", code, FALSE), FALSE)
    ELSE Ending(Response("none", "-", FALSE), TRUE)

\* The except clauses of call_tool (lines 166-191) on what the body raised:
\* AdminMCPError and its subclasses, then every other Exception.
respond(raised, code, debug) ==
    IF raised = "AdminMCPError" THEN Ending(Response("error", code, FALSE), FALSE)
    ELSE Ending(Response("unexpected", "-", debug), FALSE)

\* An unknown tool answered without the names of the known ones.
unknown_tool_bare(name, debug) == respond("Exception", "-", debug)

\* lines 155-157: the ValueError for a name with no handler; its text lists
\* the keys of tool_handlers.
unknown_tool(name, debug) ==
    LET e == respond("Exception", "-", debug)
    IN  Ending([e.response EXCEPT !.listed = tool_handlers], e.propagated)

\* The outcome of call_tool.  stage: the last stage entered; ran: run_tool was
\* entered; raised: what run_tool raised; propagated: an exception left
\* call_tool.
CallOut(e, stage, ran, cm, f, k, crashed) ==
    [response |-> e.response, stage |-> stage, ran |-> ran, propagated |-> e.propagated,
     raised |-> "-",
     cache |-> cm, file |-> f, refreshes |-> k, crashed |-> crashed]

\* lines 159-164 and the except clauses: run the handler, shape what it did.
execute(name, args, cm, a, env, n) ==
    LET r == run_tool(name, args, cm, a.file, env, n + a.refreshes)
        k == a.refreshes + r.refreshes
    IN  IF r.kind = "crash"
        THEN CallOut(died, "execute", TRUE, r.cache, r.file, k, TRUE)
        ELSE IF r.kind = "return"
        THEN CallOut(returned, "execute", TRUE, r.cache, r.file, k, FALSE)
        ELSE [CallOut(respond(r.kind, r.error_code, env.debug), "execute", TRUE,
                      r.cache, r.file, k, FALSE) EXCEPT !.raised = r.kind]

\* A call_tool that authenticates whatever the arguments are.
call_tool_unvalidated(name, args, cm, f, env, n) ==
    LET a == setup_oauth2(f, args.uid, env.net1, env.w1, n)
    IN  IF a.crashed
        THEN CallOut(died, "authenticate", FALSE, cm, a.file, a.refreshes, TRUE)
        ELSE IF a.raises
        THEN CallOut(respond("AdminMCPError", "AUTH_FAILED", env.debug),
                     "authenticate", FALSE, cm, a.file, a.refreshes, FALSE)
        ELSE IF ~get_tool_handler(name)
        THEN CallOut(unknown_tool(name, env.debug), "resolve", FALSE,
                     cm, a.file, a.refreshes, FALSE)
        ELSE execute(name, args, cm, a, env, n)

\* A call_tool that looks the handler up before it authenticates.
call_tool_resolve_first(name, args, cm, f, env, n) ==
    IF ~args.dict \/ ~args.has_uid
    THEN CallOut(respond("Exception", "-", env.debug), "validate", FALSE, cm, f, 0, FALSE)
    ELSE IF ~get_tool_handler(name)
    THEN CallOut(unknown_tool(name, env.debug), "resolve", FALSE, cm, f, 0, FALSE)
    ELSE LET a == setup_oauth2(f, args.uid, env.net1, env.w1, n)
         IN  IF a.crashed
             THEN CallOut(died, "authenticate", FALSE, cm, a.file, a.refreshes, TRUE)
             ELSE IF a.raises
             THEN CallOut(respond("AdminMCPError", "AUTH_FAILED", env.debug),
                          "authenticate", FALSE, cm, a.file, a.refreshes, FALSE)
             ELSE execute(name, args, cm, a, env, n)

\* call_tool(name, arguments).  cm: the cache of the manager the users handler
\* owns; f: the credential file of arguments[USER_ID_ARG] (none if no user).
call_tool(name, args, cm, f, env, n) ==
    IF ~args.dict \/ ~args.has_uid
    THEN CallOut(respond("Exception", "-", env.debug), "validate", FALSE, cm, f, 0, FALSE)
    ELSE LET a == setup_oauth2(f, args.uid, env.net1, env.w1, n)
         IN  IF a.crashed
             THEN CallOut(died, "authenticate", FALSE,
                          cm, a.file, a.refreshes, TRUE)
             ELSE IF a.raises
             THEN CallOut(respond("AdminMCPError", "AUTH_FAILED", env.debug),
                          "authenticate", FALSE, cm, a.file, a.refreshes, FALSE)
             ELSE IF ~get_tool_handler(name)
             THEN CallOut(unknown_tool(name, env.debug), "resolve", FALSE,
                          cm, a.file, a.refreshes, FALSE)
             ELSE execute(name, args, cm, a, env, n)

\* The environment of one call; an outcome the call cannot read is pinned.
Env(net1, w1, net2, w2, api, custom, debug) ==
    [net1 |-> net1, w1 |-> w1, net2 |-> net2, w2 |-> w2, api |-> api,
     custom |-> custom, debug |-> debug]
NoCustom == [kind |-> "return", error_code |-> "-"]

\* The history of call_tool when no call has just ended.
NoCall == [op |-> "idle"]

\* The history of the registry and the handlers when no operation on them
\* has just ended.
NoTool == [op |-> "idle"]

\* A thread inside get_stored_credentials of the shared manager.  pc: "idle",
\* "refreshing" (before credentials.refresh, line 136), "saving" (before
\* save_credentials, line 137), "done" (returned); loaded: the credential read
\* from the file; result: the credential it holds (refreshed or returned);
\* refreshed: its refresh request succeeded.
IdleCall == [pc |-> "idle", u |-> "-", loaded |-> NoCred, result |-> NoCred,
             refreshed |-> FALSE]
Callers == {"c1", "c2"}

\* ------------------------------------------------------------------ Init
Init ==
    /\ file = [u \in Users |-> NoCred]
    /\ cache = EmptyCaches
    /\ now = 0
    /\ issued = 0
    /\ codesUsed = 0
    /\ codeUser = "-"
    /\ revoked = [m \in Managers |-> {}]
    /\ calls = [c \in Callers |-> IdleCall]
    /\ lastOp = NoOp
    /\ lastCall = NoCall
    /\ registry = InitialRegistry
    /\ lastTool = NoTool

\* --------------------------------------------------------------- actions
\* No operation is waiting for its caller to take the result.
Idle == lastOp = NoOp /\ lastCall = NoCall

\* Time passes.
Tick ==
    /\ Idle
    /\ now < MaxTime
    /\ now' = now + 1
    /\ UNCHANGED <<registry, lastTool, file, cache, issued, codesUsed, codeUser, revoked, calls, lastOp, lastCall>>

\* The caller of the operation that has just ended takes its result.
Return ==
    /\ ~Idle
    /\ lastOp' = NoOp
    /\ lastCall' = NoCall
    /\ UNCHANGED <<registry, lastTool, file, cache, now, issued, codesUsed, codeUser, revoked, calls>>

\* The caches after an operation of manager m that left it the cache cm: a
\* crash ends the process and with it every cache; a Fresh manager is dropped.
CachesAfter(m, cm, crashed) ==
    IF crashed THEN EmptyCaches
    ELSE IF m = Fresh THEN cache
    ELSE [cache EXCEPT ![m] = cm]

\* manager m: get_stored_credentials(u)
Get(m, u) ==
    /\ Idle
    /\ \E net \in NetsFor(CacheOf(m), file[u], u, issued) :
       \E w \in WritesFor(CacheOf(m), file[u], u, net, issued) :
           LET g == get_stored_credentials(CacheOf(m), file[u], u, net, w, issued)
           IN  /\ file' = [file EXCEPT ![u] = g.file]
               /\ cache' = CachesAfter(m, g.cache, g.crashed)
               /\ issued' = IF g.refreshed THEN issued + 1 ELSE issued
               /\ lastOp' = OpRecord("get", m, u, g, g,
                                      IF g.crashed THEN "crashed"
                                      ELSE IF g.result.kind = "cred" THEN "cred"
                                      ELSE "None", w)
               /\ lastCall' = NoCall
               /\ UNCHANGED <<registry, lastTool, now, codesUsed, codeUser, revoked, calls>>

\* The authorization codes a caller may present: none, the one consumed last,
\* the one handed out last, one the provider never issued.
CodeInputs == {0, codesUsed, codesUsed + 1, codesUsed + 2}
CodeKind(code) ==
    IF code = 0 THEN "none"
    ELSE IF code <= codesUsed THEN "used"
    ELSE IF code = codesUsed + 1 THEN "valid"
    ELSE "invalid"

\* manager m: get_credentials(u, code)
GetCredentials(m, u) ==
    /\ Idle
    /\ \E net \in NetsFor(CacheOf(m), file[u], u, issued) :
       \E code \in CodeInputs :
           LET g == get_stored_credentials(CacheOf(m), file[u], u, net, "ok", issued)
               exchanging == g.result.kind # "cred" /\ code # 0
           IN
       \E ex \in (IF exchanging THEN ExchangeOutcomes ELSE {"ok"}) :
       \E rt \in (IF exchanging /\ ExchangeOk(code, ex, issued) THEN BOOLEAN ELSE {FALSE}) :
       \E w \in (IF exchanging /\ ExchangeOk(code, ex, issued) THEN WriteOutcomes
                 ELSE WritesFor(CacheOf(m), file[u], u, net, issued)) :
           LET r == get_credentials(CacheOf(m), file[u], u, code, net, w, ex, rt, issued)
           IN  /\ file' = [file EXCEPT ![u] = r.file]
               /\ cache' = CachesAfter(m, r.cache, r.crashed)
               /\ issued' = IF r.refreshed \/ r.exchanged THEN issued + 1 ELSE issued
               /\ codesUsed' = IF r.exchanged THEN codesUsed + 1 ELSE codesUsed
               /\ codeUser' = IF r.exchanged THEN u ELSE codeUser
               /\ revoked' = IF r.exchanged
                             THEN [x \in Managers |-> revoked[x] \ {u}]
                             ELSE revoked
               /\ lastOp' = [OpRecord("get_credentials", m, u, r, r,
                                       IF r.crashed THEN "crashed"
                                       ELSE IF r.raised THEN "raised"
                                       ELSE IF r.result.kind = "cred" THEN "cred"
                                       ELSE "None", w) EXCEPT
                               !.write = IF r.refreshed \/ r.exchanged THEN w ELSE "-",
                               !.exchanged = r.exchanged,
                               !.exchangeAttempts = r.exchangeAttempts,
                               !.code = CodeKind(code)]
               /\ lastCall' = NoCall
               /\ UNCHANGED <<registry, lastTool, now, calls>>

\* manager m: revoke_credentials(u)
Revoke(m, u) ==
    /\ Idle
    /\ \E net \in NetsFor(CacheOf(m), file[u], u, issued) :
       \E w \in WritesFor(CacheOf(m), file[u], u, net, issued) :
           LET g == get_stored_credentials(CacheOf(m), file[u], u, net, w, issued)
               found == ~g.crashed /\ g.result.kind = "cred"
           IN
       \E rv \in (IF found THEN NetOutcomes ELSE {"ok"}) :
       \E rm \in (IF found /\ rv = "ok" /\ g.file.kind # "none" THEN BOOLEAN ELSE {TRUE}) :
           LET r == revoke_credentials(CacheOf(m), file[u], u, net, w, rv, rm, issued)
           IN  /\ file' = [file EXCEPT ![u] = r.file]
               /\ cache' = CachesAfter(m, r.cache, r.crashed)
               /\ issued' = IF r.refreshed THEN issued + 1 ELSE issued
               /\ revoked' = IF r.ret /\ m \in Managers
                             THEN [revoked EXCEPT ![m] = @ \cup {u}]
                             ELSE revoked
               /\ lastOp' = [OpRecord("revoke", m, u, r, r,
                                       IF r.crashed THEN "crashed"
                                       ELSE IF r.ret THEN "True" ELSE "False", w) EXCEPT
                               !.remote = r.remote]
               /\ lastCall' = NoCall
               /\ UNCHANGED <<registry, lastTool, now, codesUsed, codeUser, calls>>

\* The file of the identity a call names (no file for an identity that is
\* no user) and the cache of the manager its handler authenticates with.
FileOf(uid) == IF uid \in Users THEN file[uid] ELSE NoCred
HandlerCache(name) == IF name = "list_users" THEN cache["m1"] ELSE EmptyCache

\* logger.isEnabledFor(logging.DEBUG) is read at line 188 only.
DebugsFor(name, args, cm, f, env, n) ==
    IF call_tool(name, args, cm, f, env, n).response.kind = "unexpected"
    THEN BOOLEAN ELSE {FALSE}

\* call_tool(name, args)
CallTool(name, args) ==
    /\ Idle
    /\ \E net1 \in (IF args.uid \in Users
                    THEN NetsFor(EmptyCache, FileOf(args.uid), args.uid, issued)
                    ELSE {"fail"}) :
       \E w1 \in (IF args.uid \in Users
                  THEN WritesFor(EmptyCache, FileOf(args.uid), args.uid, net1, issued)
                  ELSE {"ok"}) :
           LET f == FileOf(args.uid)
               a == setup_oauth2(f, args.uid, net1, w1, issued)
               reach == /\ args.dict /\ args.has_uid /\ ~a.crashed /\ ~a.raises
                        /\ get_tool_handler(name)
               auth == /\ reach /\ name \in {"list_users", "list_groups"}
                       /\ name = "list_groups" => args.has_domain
               hcm == HandlerCache(name)
               n2 == issued + a.refreshes
           IN  \E net2 \in (IF auth THEN NetsFor(hcm, a.file, args.uid, n2) ELSE {"fail"}) :
               \E w2 \in (IF auth THEN WritesFor(hcm, a.file, args.uid, net2, n2)
                          ELSE {"ok"}) :
               \E api \in (IF auth /\ lookup(hcm, a.file, args.uid, net2, w2, n2).result.kind = "cred"
                           THEN ApiOutcomes ELSE {ApiOk}) :
               \E custom \in (IF reach /\ name = "custom_tool" THEN CustomOutcomes
                              ELSE {NoCustom}) :
               \E debug \in DebugsFor(name, args, cache["m1"], f,
                                      Env(net1, w1, net2, w2, api, custom, FALSE), issued) :
                   LET env == Env(net1, w1, net2, w2, api, custom, debug)
                       r == call_tool(name, args, cache["m1"], f, env, issued)
                   IN  /\ file' = IF args.uid \in Users
                                  THEN [file EXCEPT ![args.uid] = r.file] ELSE file
                       /\ cache' = CachesAfter("m1", r.cache, r.crashed)
                       /\ issued' = issued + r.refreshes
                       /\ lastCall' = [op |-> "call", name |-> name, args |-> args,
                                       stored |-> StoredState(f), src |-> f, n |-> issued,
                                       raised |-> r.raised,
                                       hit |-> args.uid \in Users /\ hcm[args.uid].kind = "cred",
                                       env |-> env, response |-> r.response,
                                       stage |-> r.stage, ran |-> r.ran,
                                       propagated |-> r.propagated,
                                       crashed |-> r.crashed, refreshes |-> r.refreshes]
                       /\ lastOp' = NoOp
                       /\ UNCHANGED <<registry, lastTool, now, codesUsed, codeUser, revoked, calls>>

Next ==
    \/ Tick
    \/ Return
    \/ \E m \in OpManagers, u \in Users : Get(m, u)
    \/ \E m \in OpManagers, u \in Users : GetCredentials(m, u)
    \/ \E m \in OpManagers, u \in Users : Revoke(m, u)
    \/ \E name \in ToolNames, args \in ArgShapes : CallTool(name, args)

Spec == Init /\ [][Next]_vars

\* ------------------------------------------- threads sharing one manager
\* The store may hold credentials that have already expired when the process
\* starts.
StoredAtStart == {NoCred, Cred(0, TRUE, 0), Cred(0, FALSE, 0)}
InitConc ==
    /\ file \in [Users -> StoredAtStart]
    /\ cache = EmptyCaches
    /\ now = 0
    /\ issued = 0
    /\ codesUsed = 0
    /\ codeUser = "-"
    /\ revoked = [m \in Managers |-> {}]
    /\ calls = [c \in Callers |-> IdleCall]
    /\ lastOp = NoOp
    /\ lastCall = NoCall
    /\ registry = InitialRegistry
    /\ lastTool = NoTool

\* lines 115-133: thread c enters get_stored_credentials(u); it returns the
\* cached or the unexpired stored credential, or goes on to refresh.
CLoad(c, u) ==
    /\ calls[c].pc = "idle"
    /\ LET cm == cache["m1"]
           f == file[u]
       IN  IF WillRefresh(cm, f, u)
           THEN /\ calls' = [calls EXCEPT ![c] =
                        [IdleCall EXCEPT !.pc = "refreshing", !.u = u, !.loaded = f]]
                /\ UNCHANGED cache
           ELSE LET g == get_stored_credentials(cm, f, u, "fail", "ok", issued)
                IN  /\ calls' = [calls EXCEPT ![c] =
                            [IdleCall EXCEPT !.pc = "done", !.u = u, !.loaded = f,
                                             !.result = g.result]]
                    /\ cache' = [cache EXCEPT !["m1"] = g.cache]
    /\ UNCHANGED <<registry, lastTool, file, now, issued, codesUsed, codeUser, revoked, lastOp, lastCall>>

\* lines 135-136 and 139-141: the refresh request of thread c.
CRefresh(c) ==
    /\ calls[c].pc = "refreshing"
    /\ \E net \in NetOutcomes :
           IF RefreshOk(calls[c].loaded, net, issued)
           THEN /\ calls' = [calls EXCEPT ![c].pc = "saving", ![c].refreshed = TRUE,
                                          ![c].result = Refreshed(calls[c].loaded, issued)]
                /\ issued' = issued + 1
           ELSE /\ calls' = [calls EXCEPT ![c].pc = "done"]
                /\ UNCHANGED issued
    /\ UNCHANGED <<registry, lastTool, file, cache, now, codesUsed, codeUser, revoked, lastOp, lastCall>>

\* lines 137 and 143-144: thread c saves, caches and returns what it refreshed.
\* A crash ends every thread of the process.
CSave(c) ==
    /\ calls[c].pc = "saving"
    /\ \E w \in WriteOutcomes :
           LET u == calls[c].u
               sv == save_credentials(cache["m1"], file[u], u, calls[c].result, w)
           IN  /\ file' = [file EXCEPT ![u] = sv.file]
               /\ IF w = "crash"
                  THEN /\ cache' = EmptyCaches
                       /\ calls' = [k \in Callers |-> IdleCall]
                  ELSE /\ cache' = [cache EXCEPT !["m1"] =
                                       [sv.cache EXCEPT ![u] = calls[c].result]]
                       /\ calls' = [calls EXCEPT ![c].pc = "done"]
    /\ UNCHANGED <<registry, lastTool, now, issued, codesUsed, codeUser, revoked, lastOp, lastCall>>

\* The caller of thread c takes the result.
CReturn(c) ==
    /\ calls[c].pc = "done"
    /\ calls' = [calls EXCEPT ![c] = IdleCall]
    /\ UNCHANGED <<registry, lastTool, file, cache, now, issued, codesUsed, codeUser, revoked, lastOp, lastCall>>

NextConc ==
    \/ Tick
    \/ \E c \in Callers, u \in Users : CLoad(c, u)
    \/ \E c \in Callers : CRefresh(c)
    \/ \E c \in Callers : CSave(c)
    \/ \E c \in Callers : CReturn(c)

SpecConc == InitConc /\ [][NextConc]_vars

\* ------------------------------------- the registry and the handlers alone
\* The module is imported: tool_handlers is empty and _initialize_handlers
\* has not run; nobody has authorized yet.
InitTools ==
    /\ file = [u \in Users |-> NoCred]
    /\ cache = EmptyCaches
    /\ now = 0
    /\ issued = 0
    /\ codesUsed = 0
    /\ codeUser = "-"
    /\ revoked = [m \in Managers |-> {}]
    /\ calls = [c \in Callers |-> IdleCall]
    /\ lastOp = NoOp
    /\ lastCall = NoCall
    /\ registry = <<>>
    /\ lastTool = NoTool

credVars == <<file, cache, now, issued, codesUsed, codeUser, revoked, calls, lastOp, lastCall>>

\* add_tool_handler(h)
Register(h) ==
    /\ lastTool = NoTool
    /\ LET r == add_tool_handler(registry, h)
       IN  /\ registry' = r.registry
           /\ lastTool' = [op |-> "add_tool_handler", handler |-> h,
                           duplicate |-> h.name \in KeySet(registry),
                           before |-> registry, raised |-> r.raised]
    /\ UNCHANGED credVars

\* list_tools()
ListTools ==
    /\ lastTool = NoTool
    /\ lastTool' = [op |-> "list_tools", listed |-> list_tools(registry)]
    /\ UNCHANGED <<registry, credVars>>

\* The errors handle_google_api_error is given: texts holding up to two of
\* the patterns it looks for, with or without a resp status.
Patterns ==
    {"403", "Insufficient Permission", "404", "notFound", "400", "invalid",
     "429", "quota", "500", "502", "503"}
Statuses == {0, 400, 403, 404, 409, 429, 500, 503}
ApiInputs ==
    {ApiError(marks, status) :
        marks \in {S \in SUBSET Patterns : Cardinality(S) <= 2}, status \in Statuses}

\* a handler: handle_google_api_error(e)
Classify(e) ==
    /\ lastTool = NoTool
    /\ lastTool' = [op |-> "handle_google_api_error", error |-> e,
                    out |-> handle_google_api_error(e)]
    /\ UNCHANGED <<registry, credVars>>

\* The handler registered as name is run directly: run_tool(args).
RunTool(name, args) ==
    /\ lastTool = NoTool
    /\ LET env == Env("fail", "ok", "fail", "ok", ApiOk, NoCustom, FALSE)
           r == run_tool(name, args, cache["m1"], FileOf(args.uid), env, issued)
       IN  lastTool' = [op |-> "run_tool", name |-> name, args |-> args, out |-> r]
    /\ UNCHANGED <<registry, credVars>>

\* The caller takes the result.
ReturnTool ==
    /\ lastTool # NoTool
    /\ lastTool' = NoTool
    /\ UNCHANGED <<registry, credVars>>

NextTools ==
    \/ \E h \in HandlerPool : Register(h)
    \/ ListTools
    \/ \E e \in ApiInputs : Classify(e)
    \/ \E name \in {"list_users", "list_groups"}, args \in ArgShapes : RunTool(name, args)
    \/ ReturnTool

SpecTools == InitTools /\ [][NextTools]_vars


\* ================================================================ properties
\* The call that has just ended named a user and did not die.
CallFor(u) ==
    /\ lastCall.op = "call" /\ ~lastCall.crashed
    /\ lastCall.args.dict /\ lastCall.args.has_uid /\ lastCall.args.uid = u

\* The user of the call had no usable credential: nothing readable stored, or
\* an expired credential whose refresh fails.
NoUsableCredential ==
    \/ lastCall.stored \in {"none", "corrupt"}
    \/ /\ lastCall.stored = "expired"
       /\ ~RefreshOk(lastCall.src, lastCall.env.net1, lastCall.n)

\* C1: a call with a valid user-identity key whose user has no usable
\* credential (nothing stored, or stored expired and not refreshable) is
\* answered with the AuthenticationError response, error_code AUTH_FAILED, and
\* run_tool is not executed in that call.
C1_NoCredentialIsAuthFailed ==
    \A u \in Users :
        CallFor(u) /\ NoUsableCredential =>
            /\ lastCall.response.kind = "error"
            /\ lastCall.response.error_code = "AUTH_FAILED"
            /\ ~lastCall.ran
            /\ lastCall.stage = "authenticate"

C1_Witness ==
    /\ CallFor("u1") /\ lastCall.name \in Registered
    /\ lastCall.stored = "expired" /\ lastCall.src.refresh
    /\ lastCall.env.net1 = "fail"
    /\ lastCall.response.error_code = "AUTH_FAILED" /\ ~lastCall.ran

\* The call that has just ended failed in validation, credential resolution or
\* handler lookup, or its run_tool raised.
CallFailed ==
    /\ lastCall.op = "call" /\ ~lastCall.crashed
    /\ lastCall.stage # "execute" \/ lastCall.raised # "-"

\* C2: whenever validation, credential resolution or handler lookup fails, or
\* the run_tool of a registered handler raises any exception, call_tool
\* returns a structured error response and no exception leaves call_tool.
C2_CallToolNeverRaises ==
    /\ lastCall.op = "call" => ~lastCall.propagated
    /\ CallFailed => lastCall.response.kind \in {"error", "unexpected"}

C2_Witness ==
    /\ CallFailed /\ lastCall.name = "custom_tool"
    /\ lastCall.ran /\ lastCall.raised = "Exception"
    /\ lastCall.response.kind = "unexpected" /\ ~lastCall.propagated

\* C3: once revoke_credentials(u) of a manager has returned True, and until a
\* code exchange for u succeeds, the store holds no record for u, the manager
\* caches nothing for u, and its get_stored_credentials(u) returns None
\* whatever the environment does.
C3_RevokedStaysAbsent ==
    \A m \in Managers : \A u \in revoked[m] :
        /\ file[u] = NoCred
        /\ cache[m][u] = NoCred
        /\ \A net \in NetOutcomes, w \in WriteOutcomes :
               get_stored_credentials(cache[m], file[u], u, net, w, issued).result = NoCred
        /\ lastOp.op = "get" /\ lastOp.m = m /\ lastOp.u = u => lastOp.ret = "None"

C3_Witness ==
    /\ "u1" \in revoked["m1"]
    /\ lastOp.op = "get" /\ lastOp.m = "m1" /\ lastOp.u = "u1"
    /\ lastOp.ret = "None"

\* C4: when a credential exists for the user and the remote revocation call
\* fails, revoke_credentials still leaves neither the cache nor the store with
\* a credential for the user.
C4_RevokeClearsOnRemoteFailure ==
    lastOp.op = "revoke" /\ lastOp.remote = "fail" =>
        lastOp.cached = NoCred /\ file[lastOp.u] = NoCred

\* C5: get_stored_credentials on a cached credential that has expired and has
\* a refresh token returns a credential whose expiry lies in the future, and
\* the store then holds that credential.
C5_CachedExpiredIsRefreshed ==
    /\ lastOp.op = "get" /\ lastOp.hit /\ lastOp.ret = "cred"
    /\ access_token_expired(lastOp.src) /\ lastOp.src.refresh
    => /\ ~access_token_expired(lastOp.result)
       /\ file[lastOp.u] = lastOp.result

\* C6: when get_stored_credentials misses the cache, finds the stored
\* credential expired and refreshes it, it returns the refreshed credential and
\* both the store record and the cache entry hold exactly that credential.
C6_RefreshIsPersisted ==
    /\ lastOp.op = "get" /\ ~lastOp.hit /\ lastOp.stored = "expired"
    /\ lastOp.refreshed /\ lastOp.ret = "cred"
    => /\ lastOp.cached = lastOp.result
       /\ file[lastOp.u] = lastOp.result

\* C7: when the refresh of an expired stored credential fails,
\* get_stored_credentials returns None after exactly one refresh attempt and
\* the manager's cache holds no entry for the user.
C7_RefreshFailureIsAbsent ==
    /\ lastOp.op = "get" /\ ~lastOp.hit /\ lastOp.stored = "expired"
    /\ ~lastOp.refreshed
    => /\ lastOp.ret = "None"
       /\ lastOp.attempts = 1
       /\ lastOp.cached = NoCred

C7_Witness ==
    /\ lastOp.op = "get" /\ lastOp.m = "m1" /\ ~lastOp.hit
    /\ lastOp.stored = "expired" /\ lastOp.src.refresh /\ ~lastOp.refreshed
    /\ lastOp.ret = "None" /\ lastOp.attempts = 1

\* C8: for a user whose credential has an expired access token and an empty
\* refresh token, get_stored_credentials returns None, whether the credential
\* is in the cache or only in the store.
C8_UnrecoverableIsAbsent ==
    /\ lastOp.op = "get" /\ lastOp.src.kind = "cred"
    /\ access_token_expired(lastOp.src) /\ ~lastOp.src.refresh
    => lastOp.ret = "None"

\* C9: threads that are inside get_stored_credentials for the same user at
\* the same time make one successful refresh request between them and hold
\* the same credential.
C9_SingleFlight ==
    \A c1, c2 \in Callers :
        /\ c1 # c2
        /\ calls[c1].pc # "idle" /\ calls[c2].pc # "idle"
        /\ calls[c1].u = calls[c2].u
        => /\ ~(calls[c1].refreshed /\ calls[c2].refreshed)
           /\ calls[c1].pc = "done" /\ calls[c2].pc = "done"
              /\ calls[c1].result.kind = "cred" /\ calls[c2].result.kind = "cred"
              => calls[c1].result = calls[c2].result

\* C10: the record a reader finds for a user is a complete one at every
\* point, a save that fails or dies half way included.
C10_SaveIsAtomic ==
    \A u \in Users : file[u].kind # "corrupt"

\* The manager operation that has just ended called save_credentials and the
\* call came back.
Saved ==
    /\ lastOp.op \in {"get", "get_credentials"}
    /\ lastOp.write \in {"ok", "open_fails", "write_fails"}
    /\ lastOp.ret = "cred"

\* C11: get_stored_credentials tells a missing credential file from an
\* unparsable one: the first yields None, the second an outcome that is not
\* None.
C11_CorruptDistinctFromMissing ==
    /\ lastOp.op = "get" /\ ~lastOp.hit /\ lastOp.stored = "none"
       => lastOp.ret = "None"
    /\ lastOp.op = "get" /\ ~lastOp.hit /\ lastOp.stored = "corrupt"
       => lastOp.ret # "None"

\* C12: once save_credentials(u, c) has come back, get_stored_credentials(u)
\* of the same manager and of a manager with an empty cache yield c.
C12_SaveLoadRoundTrip ==
    Saved =>
        \A cm \in {EmptyCache, CacheOf(lastOp.m)} :
        \A net \in NetOutcomes, w \in WriteOutcomes :
            get_stored_credentials(cm, file[lastOp.u], lastOp.u, net, w, issued).result
                = lastOp.result

\* C13: a successful code exchange for a user with no stored credential
\* returns the new credential, and on return the store record and the
\* manager's cache entry of the user are that credential.
C13_ExchangePersists ==
    /\ lastOp.op = "get_credentials" /\ lastOp.stored = "none" /\ ~lastOp.hit
    /\ lastOp.exchanged /\ lastOp.ret = "cred"
    => /\ file[lastOp.u] = lastOp.result
       /\ lastOp.cached = lastOp.result

\* get_credentials has just ended for the user and with the code of the last
\* successful exchange.
SameCodeAgain ==
    /\ lastOp.op = "get_credentials" /\ lastOp.code = "used"
    /\ lastOp.u = codeUser

ErrorResponse ==
    /\ lastCall.op = "call" /\ ~lastCall.crashed
    /\ lastCall.response.kind \in {"error", "unexpected"}

\* C16: a call whose arguments lack the user-identity key, or carry it with
\* an empty or non-string value, is answered with the ValidationError
\* response, error_code VALIDATION_ERROR.
C16_BadUserKeyIsValidationError ==
    /\ lastCall.op = "call" /\ ~lastCall.crashed /\ lastCall.args.dict
    /\ ~lastCall.args.has_uid \/ lastCall.args.uid \in {"", NonString}
    => /\ lastCall.response.kind = "error"
       /\ lastCall.response.error_code = "VALIDATION_ERROR"

\* C17: a call whose arguments are no mapping or lack the user-identity key
\* ends in validation: no credential is looked up or refreshed, no handler
\* runs, and the credential files and the caches are left as they were.
C17_ValidationPrecedesCredentials ==
    [][ /\ lastCall'.op = "call"
        /\ ~lastCall'.args.dict \/ ~lastCall'.args.has_uid
        => /\ lastCall'.stage = "validate"
           /\ ~lastCall'.ran
           /\ lastCall'.refreshes = 0
           /\ UNCHANGED <<file, cache, issued>> ]_vars

C17_Witness ==
    /\ lastCall.op = "call" /\ lastCall.name = "list_users"
    /\ lastCall.args.dict /\ ~lastCall.args.has_uid
    /\ lastCall.stage = "validate"
    /\ file["u1"].kind = "cred" /\ access_token_expired(file["u1"])
    /\ cache["m1"]["u1"].kind = "cred"

C19_EveryErrorHasCode ==
    ErrorResponse => lastCall.response.error_code \notin {"-", "None"}

\* C20: no response of call_tool holds a stack trace, whatever the logging
\* level.
C20_NoStackTrace ==
    lastCall.op = "call" => ~lastCall.response.trace

\* C21: registering a handler under a name that is already registered fails
\* with DuplicateTool and leaves the registry as it was.
C21_DuplicateRegistrationFails ==
    lastTool.op = "add_tool_handler" /\ lastTool.duplicate =>
        /\ lastTool.raised = "DuplicateTool"
        /\ registry = lastTool.before

\* C22: list_tools lists the registered handlers that describe themselves,
\* each once and in the order of registration, and a call returns the listing
\* of the registry as it stands, which the call does not change.
C22_ListToolsInRegistrationOrder ==
    LET l == list_tools(registry)
    IN  /\ \A i, j \in 1..Len(l) :
               i < j => IndexOf(registry, l[i].name) < IndexOf(registry, l[j].name)
        /\ \A k \in 1..Len(registry) :
               registry[k].describes => \E i \in 1..Len(l) : l[i] = Tool(registry[k])
        /\ \A i \in 1..Len(l) : l[i] = Tool(registry[IndexOf(registry, l[i].name)])
        /\ lastTool.op = "list_tools" => lastTool.listed = l

C22_Witness ==
    /\ lastTool.op = "list_tools"
    /\ Keys(registry) = <<"list_groups", "custom_tool", "list_users">>
    /\ Len(lastTool.listed) = 3
    /\ lastTool.listed[1].name = "list_groups"

\* C25: a user-management handler run with arguments that miss the required
\* user_id (or carry an empty or non-string one) raises ValidationError, error
\* code VALIDATION_ERROR.
C25_MissingFieldIsValidationError ==
    /\ lastTool.op = "run_tool" /\ lastTool.name = "list_users"
    /\ ~lastTool.args.has_uid \/ lastTool.args.uid \in {"", NonString}
    => /\ lastTool.out.kind = "AdminMCPError"
       /\ lastTool.out.error_code = "VALIDATION_ERROR"

\* C30: handle_google_api_error always raises a GoogleAPIError that carries
\* the text of the error it was given, with the code of the first pattern
\* the text holds in the order 403, 404, 400, 429, 500 (for 500, 502, 503),
\* else the code of the resp status, else GOOGLE_API_ERROR.
C30_ClassificationByFirstPattern ==
    lastTool.op = "handle_google_api_error" =>
        LET e == lastTool.error
            out == lastTool.out
            has(S) == e.marks \cap S # {}
        IN  /\ out.raises = "GoogleAPIError"
            /\ out.api_error = e.marks
            /\ out.error_code =
                 IF has({"403", "Insufficient Permission"}) THEN "GOOGLE_API_403"
                 ELSE IF has({"404", "notFound"}) THEN "GOOGLE_API_404"
                 ELSE IF has({"400", "invalid"}) THEN "GOOGLE_API_400"
                 ELSE IF has({"429", "quota"}) THEN "GOOGLE_API_429"
                 ELSE IF has({"500", "502", "503"}) THEN "GOOGLE_API_500"
                 ELSE IF e.status = 0 THEN "GOOGLE_API_ERROR"
                 ELSE GoogleAPIErrorCode(e.status)

C30_Witness ==
    /\ lastTool.op = "handle_google_api_error"
    /\ lastTool.error.marks = {"notFound", "403"}
    /\ lastTool.error.status = 404
    /\ lastTool.out.error_code = "GOOGLE_API_403"

\* C23: an operation of a manager for one user leaves the stored record and
\* every cache entry of every other user as they were (a process that dies
\* loses its caches).
C23_UsersAreIndependent ==
    [][ lastOp'.op # "idle" /\ lastOp'.ret # "crashed" =>
            \A v \in Users \ {lastOp'.u} :
                /\ file'[v] = file[v]
                /\ \A m \in Managers : cache'[m][v] = cache[m][v] ]_vars

C23_Witness ==
    /\ lastOp.op = "revoke" /\ lastOp.m = "m1" /\ lastOp.u = "u1"
    /\ lastOp.ret = "True"
    /\ cache["m1"]["u2"].kind = "cred" /\ file["u2"].kind = "cred"

\* A credential for the user of the last operation existed, in the cache or
\* in the store, when the operation began.
Existed == lastOp.hit \/ lastOp.stored \in {"valid", "expired"}

\* C24: revoke_credentials returns True exactly when a credential for the
\* user existed, in the cache or in the store, when it was called.
C24_RevokeReturnsWhetherExisted ==
    lastOp.op = "revoke" /\ lastOp.ret \in {"True", "False"} =>
        (lastOp.ret = "True" <=> Existed)

\* C26: a call goes through validation, credential resolution, handler
\* lookup and execution in that order and ends in one response, that of the
\* first stage that fails; no later stage is entered.
C26_StagesInOrder ==
    lastCall.op = "call" /\ ~lastCall.crashed =>
        LET valid == lastCall.args.dict /\ lastCall.args.has_uid
            authed == valid /\ ~NoUsableCredential
            known == lastCall.name \in Registered
        IN  /\ lastCall.response.kind \in {"result", "error", "unexpected"}
            /\ ~valid =>
                   /\ lastCall.stage = "validate" /\ lastCall.refreshes = 0
                   /\ lastCall.response.kind = "unexpected"
                   /\ lastCall.response.listed = <<>>
            /\ valid /\ ~authed =>
                   /\ lastCall.stage = "authenticate"
                   /\ lastCall.response.error_code = "AUTH_FAILED"
            /\ authed /\ ~known =>
                   /\ lastCall.stage = "resolve"
                   /\ lastCall.response.listed = tool_handlers
            /\ authed /\ known => lastCall.stage = "execute"
            /\ lastCall.ran <=> lastCall.stage = "execute"

C26_Witness ==
    /\ CallFor("u1") /\ lastCall.name = "no_such_tool"
    /\ lastCall.stored = "none"
    /\ lastCall.stage = "authenticate" /\ ~lastCall.ran
    /\ lastCall.response.error_code = "AUTH_FAILED"

\* C27: once revoke_credentials for a user has returned True through any
\* OAuthManager, no long-lived OAuthManager of the process returns a
\* credential for that user.
C27_RevokedForEveryInstance ==
    lastOp.op = "revoke" /\ lastOp.ret = "True" =>
        \A m \in Managers : \A net \in NetOutcomes, w \in WriteOutcomes :
            get_stored_credentials(cache[m], file[lastOp.u], lastOp.u, net, w,
                                   issued).result = NoCred

\* C28: get_stored_credentials on a user the manager has cached returns the
\* cached credential, whatever the store holds, makes no refresh request and
\* leaves the files and the caches as they were.
C28_CacheHitIsPure ==
    [][ lastOp'.op = "get" /\ lastOp'.hit =>
            /\ lastOp'.ret = "cred"
            /\ lastOp'.result = lastOp'.src
            /\ lastOp'.src = cache[lastOp'.m][lastOp'.u]
            /\ lastOp'.attempts = 0 /\ ~lastOp'.refreshed
            /\ UNCHANGED <<file, cache, issued>> ]_vars

C28_Witness ==
    /\ lastOp.op = "get" /\ lastOp.m = "m1" /\ lastOp.hit
    /\ lastOp.stored = "none"
    /\ lastOp.ret = "cred" /\ access_token_expired(lastOp.result)

\* C29: get_credentials attempts the code exchange only when the cache holds
\* nothing for the user and the store no unexpired credential; when one of
\* them does, that credential is returned, no request goes to the token
\* endpoint, the code is not consumed, and the store and the cache hold the
\* old credential.
C29_ExchangeOnlyWhenNeeded ==
    [][ lastOp'.op = "get_credentials" =>
            /\ lastOp'.hit \/ lastOp'.stored = "valid" =>
                   /\ lastOp'.ret = "cred" /\ lastOp'.result = lastOp'.src
                   /\ lastOp'.exchangeAttempts = 0 /\ ~lastOp'.exchanged
                   /\ lastOp'.attempts = 0 /\ ~lastOp'.refreshed
                   /\ lastOp'.cached = lastOp'.src
                   /\ UNCHANGED <<file, issued, codesUsed>>
            /\ lastOp'.exchangeAttempts # 0 =>
                   /\ ~lastOp'.hit /\ lastOp'.stored # "valid"
                   /\ ~lastOp'.refreshed ]_vars

C29_Witness ==
    /\ lastOp.op = "get_credentials" /\ lastOp.m = "m1"
    /\ ~lastOp.hit /\ lastOp.stored = "valid" /\ lastOp.code = "valid"
    /\ lastOp.ret = "cred" /\ lastOp.exchangeAttempts = 0

====
